---- MODULE Spec2Model ----
(***************************************************************************)
(* Task lifecycle of my-ai-tools: the tasks table (db/models/task.py,      *)
(* db/dao/task_dao.py, db/service/task_service.py), the two reconcilers    *)
(* (VolcengineVideoService.get_video_task_result and                      *)
(* CozeImageService.get_image_task_result) and the background sweep        *)
(* (scripts/task_scheduler.py).                                            *)
(*                                                                         *)
(* Two execution contexts run reconcilers: "client" (the HTTP result       *)
(* handlers) and "sched" (the scheduler thread started by                  *)
(* TaskScheduler.start, with its own event loop and its own TaskService).  *)
(* They are different threads, so their steps interleave at every database *)
(* read, provider call, storage call and database write.  "client2" is a  *)
(* second HTTP request in flight, used by ClientsSpec.                     *)
(*                                                                         *)
(* Name resolution: TaskService.update_task calls TaskDAO.update_task and  *)
(* CozeImageService calls TaskService.update_task_status; the only update  *)
(* the DAO defines is TaskDAO.update_task_status, and the tests expect the *)
(* update to be performed, so every update call is modelled as reaching    *)
(* TaskDAO.update_task_status.                                             *)
(***************************************************************************)
EXTENDS Integers, Sequences, FiniteSets, TLC

\* ---------------------------------------------------------------- bounds
\* rows the tasks table can hold
MaxTasks == 2
\* tasks created in the specifications that have HTTP requests in flight
MaxClientTasks == 1
MaxNow == 2
MaxKeys == 2

\* ------------------------------------------------------------- constants
TaskIds == 1..MaxTasks
Procs == {"client", "client2", "sched"}
NoTask == 0
None == "None"
NoResult == <<>>
NoTime == 0
\* a task_specific_data that is None or an empty dict
NoData == <<>>
\* a session outside a transaction
NoSnap == <<>>
\* the TaskService instances, each with its own database session
Sessions == {"s1", "s2"}

NonTerminal == {"pending", "running"}
Terminal == {"completed", "failed", "error"}

\* the page size check_video_tasks passes to list_tasks
SweepLimit == 100

\* ------------------------------------------------------------- variables
VARIABLES
    tasks,      \* the tasks table: task id -> row
    provider,   \* the provider-side job of each task: status and failure reason
    storage,    \* object keys uploaded to durable storage
    now,        \* the clock datetime.now() reads
    pc,         \* position of each caller inside a reconciler invocation
    cur,        \* task id the invocation is working on
    loc,        \* locals of the invocation (db_task snapshot, mapped status, patch)
    ret,        \* what the last invocation returned or raised
    queue,      \* pending_tasks still to be checked in the running sweep
    scheduler,  \* the TaskScheduler: its running flag, whether stop() has
                \* returned, and the tasks whose check logged an error in
                \* the tick in flight
    issued,     \* the task ids the create operations have returned
    session     \* the database sessions: what each one sees inside its open
                \* transaction, and the last TaskService call with its outcome

vars == <<tasks, provider, storage, now, pc, cur, loc, ret, queue, scheduler,
          issued, session>>

\* -------------------------------------------------------- the tasks table
\* db/models/task.py: the columns of a Task; a row that was never inserted
\* has exists = FALSE.
NoRow ==
    [exists |-> FALSE, task_id |-> NoTask, service_type |-> None,
     service_name |-> None, status |-> "pending", parameters |-> None,
     result |-> NoResult, error_message |-> None, completed_at |-> NoTime,
     task_specific_data |-> NoData]

\* TaskDAO.create_task: a new row with a fresh task_id (uuid4, unique
\* column) and the given service, status, parameters and task_specific_data;
\* result, error_message and completed_at keep the column default (NULL).
create_task(t, service_type, service_name, status, parameters, task_specific_data) ==
    [exists |-> TRUE, task_id |-> t, service_type |-> service_type,
     service_name |-> service_name, status |-> status, parameters |-> parameters,
     result |-> NoResult, error_message |-> None, completed_at |-> NoTime,
     task_specific_data |-> task_specific_data]

\* an update that writes the row anew from its arguments instead of assigning
\* to the loaded row: the request payload is not carried over
update_task_status_rewriting_row(row, status, result, error_message, clock) ==
    [create_task(row.task_id, row.service_type, row.service_name, status, None,
                 row.task_specific_data)
        EXCEPT !.result = IF result # NoResult THEN result ELSE row.result,
               !.error_message = IF error_message # None THEN error_message
                                 ELSE row.error_message,
               !.completed_at = IF status \in {"completed", "failed", "error"}
                                THEN clock ELSE row.completed_at]

\* TaskDAO.update_task_status: unconditional assignment of status; result and
\* error_message are assigned only when given; completed_at is stamped with
\* the clock whenever the new status is completed, failed or error.
update_task_status(row, status, result, error_message, clock) ==
    [row EXCEPT !.status = status,
                !.result = IF result # NoResult THEN result ELSE @,
                !.error_message = IF error_message # None THEN error_message ELSE @,
                !.completed_at = IF status \in {"completed", "failed", "error"}
                                 THEN clock ELSE @]

\* TaskDAO.list_tasks with a single status string: equality filters, newest
\* first (ids are allocated in creation order), offset/limit page.
RECURSIVE NewestFirst(_)
NewestFirst(S) ==
    IF S = {} THEN <<>>
    ELSE LET m == CHOOSE x \in S : \A y \in S : y <= x
         IN <<m>> \o NewestFirst(S \ {m})

Page(s, skip, limit) ==
    SubSeq(s, skip + 1, IF Len(s) < skip + limit THEN Len(s) ELSE skip + limit)

\* ---------------------------------------------------------- the provider
JobDone == {"succeeded", "failed", "cancelled", "Success", "Fail"}
NoJob == [status |-> None, failure_reason |-> None]

\* get_video_task_result: status_mapping.get(status, "pending")
status_mapping(status) ==
    CASE status = "queued" -> "pending"
      [] status = "running" -> "running"
      [] status = "succeeded" -> "completed"
      [] status = "failed" -> "failed"
      [] status = "cancelled" -> "failed"
      [] OTHER -> "pending"

\* `failure_reason or "unknown"` / `error_message or "unknown"`
OrUnknown(reason) == IF reason = None THEN "unknown_error" ELSE reason

\* ------------------------------------------------------------ invocation
NoLoc ==
    [db_status |-> None, db_result |-> NoResult, db_error |-> None,
     status |-> None, result |-> NoResult, error_message |-> None, reason |-> None,
     updated |-> FALSE]
NoRet == [kind |-> "none", code |-> None, status |-> None, result |-> NoResult,
          error |-> None]

Return(status, result, error) ==
    [kind |-> "return", code |-> None, status |-> status, result |-> result,
     error |-> error]
Raise(code) ==
    [kind |-> "raise", code |-> code, status |-> None, result |-> NoResult,
     error |-> None]

\* no TaskService call has been made yet
NoCall ==
    [session |-> None, op |-> None, task |-> NoTask, refresh |-> FALSE,
     service_type |-> None, status |-> {}, as_list |-> FALSE,
     task_specific_data |-> NoData,
     kind |-> "none", row |-> NoRow, rows |-> <<>>]

Init ==
    /\ tasks = [t \in TaskIds |-> NoRow]
    /\ provider = [t \in TaskIds |-> NoJob]
    /\ storage = {}
    /\ now = 1
    /\ pc = [p \in Procs |-> "idle"]
    /\ cur = [p \in Procs |-> NoTask]
    /\ loc = [p \in Procs |-> NoLoc]
    /\ ret = [p \in Procs |-> NoRet]
    /\ queue = <<>>
    /\ scheduler = [running |-> TRUE, stopped |-> FALSE, errors |-> {}]
    /\ issued = {}
    /\ session = [snap |-> [s \in Sessions |-> NoSnap], last |-> NoCall]

\* ------------------------------------------------------ helper operators
Row(p) == tasks[cur[p]]
Job(p) == provider[cur[p]]

FreeIds == {t \in TaskIds : ~tasks[t].exists}
NextId == CHOOSE t \in FreeIds : \A u \in FreeIds : t <= u

\* the invocation of caller p on task t ends with outcome r (returned or
\* raised to the caller)
Finish(p, t, r, l) ==
    /\ pc' = [pc EXCEPT ![p] = "done"]
    /\ cur' = [cur EXCEPT ![p] = t]
    /\ ret' = [ret EXCEPT ![p] = r]
    /\ loc' = [loc EXCEPT ![p] = l]
    /\ UNCHANGED <<queue, scheduler, issued, session>>

\* check_video_tasks without the per-task try/except of lines 56-71: an
\* exception raised by one task's check leaves the loop and ends the tick
RespondAbortingSweep(p) ==
    /\ pc[p] = "done"
    /\ LET abort == p = "sched" /\ ret[p].kind = "raise" IN
        /\ pc' = [pc EXCEPT ![p] = IF p = "sched" /\ (abort \/ Len(queue) = 1)
                                   THEN "sleep" ELSE "idle"]
        /\ queue' = IF p # "sched" THEN queue
                    ELSE IF abort THEN <<>> ELSE Tail(queue)
    /\ cur' = [cur EXCEPT ![p] = NoTask]
    /\ loc' = [loc EXCEPT ![p] = NoLoc]
    /\ ret' = [ret EXCEPT ![p] = NoRet]
    /\ scheduler' = IF p = "sched" THEN [scheduler EXCEPT !.errors = {}] ELSE scheduler
    /\ UNCHANGED <<tasks, provider, storage, now, issued, session>>

\* the caller has its response; the scheduler moves on to the next task of
\* pending_tasks (check_video_tasks logs a raised exception and continues)
\* and leaves check_video_tasks after the last one
Respond(p) ==
    /\ pc[p] = "done"
    /\ pc' = [pc EXCEPT ![p] = IF p = "sched" /\ Len(queue) = 1 THEN "sleep" ELSE "idle"]
    /\ cur' = [cur EXCEPT ![p] = NoTask]
    /\ loc' = [loc EXCEPT ![p] = NoLoc]
    /\ ret' = [ret EXCEPT ![p] = NoRet]
    /\ queue' = IF p = "sched" THEN Tail(queue) ELSE queue
    /\ scheduler' =
          IF p # "sched" THEN scheduler
          ELSE IF Len(queue) = 1 THEN [scheduler EXCEPT !.errors = {}]
          ELSE IF ret[p].kind = "raise" /\ ret[p].code # "NO_SERVICE"
          THEN [scheduler EXCEPT !.errors = @ \cup {cur[p]}]
          ELSE scheduler
    /\ UNCHANGED <<tasks, provider, storage, now, issued, session>>

\* datetime.now() of a terminal write; later writes read a later clock
Stamp(status) == IF status \in Terminal /\ now < MaxNow THEN now + 1 ELSE now

Goto(p, t, label, l) ==
    /\ pc' = [pc EXCEPT ![p] = label]
    /\ cur' = [cur EXCEPT ![p] = t]
    /\ loc' = [loc EXCEPT ![p] = l]
    /\ UNCHANGED <<ret, queue, scheduler, issued, session>>

\* ------------------------------------------------------------ creation
\* VolcengineVideoService.create_image_to_video_task: the provider job is
\* created, then the row is inserted with status pending and the job id.
create_image_to_video_task ==
    /\ FreeIds # {}
    /\ LET t == NextId IN
        /\ provider' = [provider EXCEPT ![t] = [status |-> "queued", failure_reason |-> None]]
        /\ tasks' = [tasks EXCEPT ![t] =
                create_task(t, "video", "volcengine", "pending", "prompt",
                            [volcengine_task_id |-> t])]
        /\ issued' = issued \cup {t}
    /\ UNCHANGED <<storage, now, pc, cur, loc, ret, queue, scheduler, session>>

\* CozeImageService.create_image_task: the workflow run is created, then the
\* row is inserted with status pending and the execute_id.
create_image_task ==
    /\ FreeIds # {}
    /\ LET t == NextId IN
        /\ provider' = [provider EXCEPT ![t] = [status |-> "Running", failure_reason |-> None]]
        /\ tasks' = [tasks EXCEPT ![t] =
                create_task(t, "image", "coze", "pending", "prompt",
                            [execute_id |-> t])]
        /\ issued' = issued \cup {t}
    /\ UNCHANGED <<storage, now, pc, cur, loc, ret, queue, scheduler, session>>

\* the execute_id of a workflow run, a value of the provider's id space
ExecuteId(t) == 0 - t

\* CozeImageService.create_image_task, lines 128-168, when the insert fails:
\* the workflow run has been created, task_service.create_task raises, the
\* handler of lines 154-156 logs it and the execute_id is returned as the
\* task_id. No row refers to the run.
create_image_task_unrecorded ==
    /\ FreeIds # {}
    /\ issued' = issued \cup {ExecuteId(NextId)}
    /\ UNCHANGED <<tasks, provider, storage, now, pc, cur, loc, ret, queue, scheduler,
                   session>>

\* ------------------------------------------------- the provider's job
\* The job runs out-of-band; its status only moves forward and a finished
\* job keeps its outcome and failure reason.
JobSteps(j) ==
    CASE j.status = "queued" -> {[status |-> "running", failure_reason |-> None]}
      [] j.status = "running" ->
            {[status |-> "succeeded", failure_reason |-> None],
             [status |-> "cancelled", failure_reason |-> None],
             [status |-> "failed", failure_reason |-> "reason"]}
      [] j.status = "Running" ->
            {[status |-> "Success", failure_reason |-> None],
             [status |-> "Fail", failure_reason |-> None],
             [status |-> "Fail", failure_reason |-> "reason"]}
      [] OTHER -> {}

ProviderStep ==
    /\ \E t \in TaskIds : \E j \in JobSteps(provider[t]) :
            provider' = [provider EXCEPT ![t] = j]
    /\ UNCHANGED <<tasks, storage, now, pc, cur, loc, ret, queue, scheduler, issued, session>>

\* The provider reports a status value that neither adapter lists (the APIs
\* return the status as an open string); the job shows that value from then on.
ProviderStepUnlisted ==
    /\ \E t \in TaskIds :
        /\ provider[t].status \in {"queued", "running", "Running"}
        /\ provider' = [provider EXCEPT ![t] =
                            [status |-> "unlisted", failure_reason |-> None]]
    /\ UNCHANGED <<tasks, storage, now, pc, cur, loc, ret, queue, scheduler, issued, session>>

\* ------------------------------------------------- the video reconciler
Clients == Procs \ {"sched"}
VideoServiceRegistry == {"volcengine"}
ImageServiceRegistry == {"coze"}

Snapshot(row) ==
    [NoLoc EXCEPT !.db_status = row.status, !.db_result = row.result,
                  !.db_error = row.error_message]

\* get_video_task_result without the `status == "completed"` early return
VideoStartNoFastPath(p, t) ==
    LET row == tasks[t] IN
    IF ~row.exists
    THEN Finish(p, t, Raise("TASK_NOT_FOUND"), NoLoc)
    ELSE IF "volcengine_task_id" \notin DOMAIN row.task_specific_data
    THEN Finish(p, t, Raise("INVALID_TASK"), Snapshot(row))
    ELSE Goto(p, t, "video_poll", Snapshot(row))

\* get_video_task_result, lines 173-215: read the row; an unknown id raises
\* TASK_NOT_FOUND; a row whose status is completed is returned without a
\* provider call; every other row (pending, running, failed, error) goes on
\* to the provider call.
VideoStart(p, t) ==
    LET row == tasks[t] IN
    IF ~row.exists
    THEN Finish(p, t, Raise("TASK_NOT_FOUND"), NoLoc)
    ELSE IF row.status = "completed"
    THEN Finish(p, t, Return(row.status, row.result, None), Snapshot(row))
    ELSE IF "volcengine_task_id" \notin DOMAIN row.task_specific_data
    THEN Finish(p, t, Raise("INVALID_TASK"), Snapshot(row))
    ELSE Goto(p, t, "video_poll", Snapshot(row))

\* api/video/router.py get_video_task_result: unknown id or a service name
\* that is not a registered video service raises ResourceNotFoundException;
\* otherwise the service's get_video_task_result runs.
video_router_result(p, t) ==
    /\ p \in Clients
    /\ pc[p] = "idle"
    /\ IF ~tasks[t].exists \/ tasks[t].service_name \notin VideoServiceRegistry
       THEN Finish(p, t, Raise("RESOURCE_NOT_FOUND"), NoLoc)
       ELSE VideoStart(p, t)
    /\ UNCHANGED <<tasks, provider, storage, now>>

\* lines 217-239: tasks.get returned; the provider status is mapped and the
\* branch is chosen.
VideoPoll(p) ==
    /\ pc[p] = "video_poll"
    /\ LET our_status == status_mapping(Job(p).status)
           next == IF our_status = "completed" THEN "video_materialize" ELSE "video_write"
           err == IF our_status = "failed" THEN OrUnknown(Job(p).failure_reason) ELSE None
       IN Goto(p, cur[p], next, [loc[p] EXCEPT !.status = our_status, !.error_message = err])
    /\ UNCHANGED <<tasks, provider, storage, now>>

\* lines 218, 303-309: tasks.get raised; nothing is written and the caller
\* gets BusinessException VIDEO_TASK_RESULT_ERROR.
VideoPollRaise(p) ==
    /\ pc[p] = "video_poll"
    /\ Finish(p, cur[p], Raise("VIDEO_TASK_RESULT_ERROR"), loc[p])
    /\ UNCHANGED <<tasks, provider, storage, now>>

\* lines 246-260: a fresh object key (time + uuid4) is generated, the video
\* is downloaded and uploaded under that key.
FreshKeys == (1..MaxKeys) \ storage
VideoMaterialize(p) ==
    /\ pc[p] = "video_materialize"
    /\ FreshKeys # {}
    /\ LET k == CHOOSE x \in FreshKeys : \A y \in FreshKeys : x <= y IN
        /\ storage' = storage \cup {k}
        /\ Goto(p, cur[p], "video_write", [loc[p] EXCEPT !.result = <<"oss", k>>])
    /\ UNCHANGED <<tasks, provider, now>>

\* lines 271-276: download or upload raised; nothing is written and the
\* caller gets a BusinessException.
VideoMaterializeRaise(p) ==
    /\ pc[p] = "video_materialize"
    /\ Finish(p, cur[p], Raise("BUSINESS_ERROR"), loc[p])
    /\ UNCHANGED <<tasks, provider, storage, now>>

\* lines 264-270, 283-289, 292-298: update_task with the mapped status (and
\* result or error_message), then the response is returned.
VideoWrite(p) ==
    /\ pc[p] = "video_write"
    /\ LET t == cur[p] IN
        /\ tasks' = [tasks EXCEPT ![t] =
                update_task_status(tasks[t], loc[p].status, loc[p].result,
                                   loc[p].error_message, now)]
        /\ now' = Stamp(loc[p].status)
    /\ Finish(p, cur[p], Return(loc[p].status, loc[p].result, loc[p].error_message),
              [loc[p] EXCEPT !.updated = TRUE])
    /\ UNCHANGED <<provider, storage>>

\* update_task raised (the transaction is rolled back, nothing is written):
\* in the completed branch the handler of lines 271-276 turns it into a
\* BusinessException, in the other branches the handler of lines 303-309.
VideoWriteRaise(p) ==
    /\ pc[p] = "video_write"
    /\ Finish(p, cur[p],
              Raise(IF loc[p].status = "completed" THEN "BUSINESS_ERROR"
                    ELSE "VIDEO_TASK_RESULT_ERROR"),
              loc[p])
    /\ UNCHANGED <<tasks, provider, storage, now>>

\* ------------------------------------------------- the image reconciler
\* get_image_task_result, lines 195-233: read the row; unknown id raises
\* ResourceNotFoundException; a completed row is returned; a failed or error
\* row raises TaskFailedException; otherwise the provider is asked.
ImageStart(p, t) ==
    LET row == tasks[t] IN
    IF ~row.exists
    THEN Finish(p, t, Raise("RESOURCE_NOT_FOUND"), NoLoc)
    ELSE IF row.status = "completed"
    THEN Finish(p, t, Return("completed", row.result, None), Snapshot(row))
    ELSE IF row.status \in {"failed", "error"}
    THEN Finish(p, t, Raise("TASK_FAILED"), Snapshot(row))
    ELSE Goto(p, t, "image_poll", Snapshot(row))

\* api/image/router.py get_image_task_result
image_router_result(p, t) ==
    /\ p \in Clients
    /\ pc[p] = "idle"
    /\ IF ~tasks[t].exists \/ tasks[t].service_name \notin ImageServiceRegistry
       THEN Finish(p, t, Raise("RESOURCE_NOT_FOUND"), NoLoc)
       ELSE ImageStart(p, t)
    /\ UNCHANGED <<tasks, provider, storage, now>>

\* lines 262-351: run_histories.retrieve returned; FAIL, RUNNING and SUCCESS
\* each prepare a status update, any other value is returned as "unknown"
\* without an update.
ImagePoll(p) ==
    /\ pc[p] = "image_poll"
    /\ LET s == Job(p).status IN
       IF s = "Fail"
       THEN Goto(p, cur[p], "image_write",
                 [loc[p] EXCEPT !.status = "failed",
                                !.error_message = OrUnknown(Job(p).failure_reason),
                                !.reason = "TASK_FAILED"])
       ELSE IF s = "Running"
       THEN Goto(p, cur[p], "image_write", [loc[p] EXCEPT !.status = "running"])
       ELSE IF s = "Success"
       THEN Goto(p, cur[p], "image_write",
                 [loc[p] EXCEPT !.status = "completed",
                                !.result = <<"provider", cur[p]>>])
       ELSE Finish(p, cur[p], Return("unknown", NoResult, None), loc[p])
    /\ UNCHANGED <<tasks, provider, storage, now>>

\* lines 241-260: run_histories.retrieve raised; status error with the
\* error text is written, then ServiceUnavailableException is raised.
ImagePollRaise(p) ==
    /\ pc[p] = "image_poll"
    /\ Goto(p, cur[p], "image_write",
            [loc[p] EXCEPT !.status = "error", !.error_message = "poll_error",
                           !.reason = "SERVICE_UNAVAILABLE"])
    /\ UNCHANGED <<tasks, provider, storage, now>>

\* the update_task_status call of the chosen branch, then its return or raise
ImageWrite(p) ==
    /\ pc[p] = "image_write"
    /\ LET t == cur[p] IN
        /\ tasks' = [tasks EXCEPT ![t] =
                update_task_status(tasks[t], loc[p].status, loc[p].result,
                                   loc[p].error_message, now)]
        /\ now' = Stamp(loc[p].status)
    /\ IF loc[p].reason # None
       THEN Finish(p, cur[p], Raise(loc[p].reason), [loc[p] EXCEPT !.updated = TRUE])
       ELSE Finish(p, cur[p], Return(loc[p].status, loc[p].result, None),
                   [loc[p] EXCEPT !.updated = TRUE])
    /\ UNCHANGED <<provider, storage>>

\* the update raised: every branch logs it and goes on to its return or raise
ImageWriteRaise(p) ==
    /\ pc[p] = "image_write"
    /\ IF loc[p].reason # None
       THEN Finish(p, cur[p], Raise(loc[p].reason), loc[p])
       ELSE Finish(p, cur[p], Return(loc[p].status, loc[p].result, None), loc[p])
    /\ UNCHANGED <<tasks, provider, storage, now>>

\* --------------------------------------------------------- the scheduler
\* TaskService.list_tasks / TaskDAO.list_tasks as check_video_tasks calls it:
\* service_type "video", status ["pending", "running"], limit 100.
list_tasks(service_type, statuses, skip, limit) ==
    Page(NewestFirst({t \in TaskIds : /\ tasks[t].exists
                                      /\ tasks[t].service_type = service_type
                                      /\ tasks[t].status \in statuses}),
         skip, limit)

\* check_video_tasks, lines 40-52: the listing. TaskDAO.list_tasks compares
\* the status column with the value it is given (Task.status == status);
\* given a list, the query either fails in the driver (the outer handler
\* logs it and the tick ends) or selects the rows whose status is in the
\* list, as TaskService.list_tasks documents.
check_video_tasks ==
    /\ pc["sched"] = "idle"
    /\ queue = <<>>
    /\ LET pending_tasks == list_tasks("video", {"pending", "running"}, 0, SweepLimit) IN
        /\ queue' = pending_tasks
        /\ pc' = [pc EXCEPT !["sched"] = IF pending_tasks = <<>> THEN "sleep" ELSE "idle"]
    /\ UNCHANGED <<tasks, provider, storage, now, cur, loc, ret, scheduler, issued, session>>

check_video_tasks_raise ==
    /\ pc["sched"] = "idle"
    /\ queue = <<>>
    /\ pc' = [pc EXCEPT !["sched"] = "sleep"]
    /\ UNCHANGED <<tasks, provider, storage, now, cur, loc, ret, queue, scheduler,
                   issued, session>>

\* TaskScheduler.run, lines 91-96: the sleep between two ticks is over and
\* the loop condition `while self.running` is read: the next tick starts, or
\* run() returns and the thread ends.
sched_sleep ==
    /\ pc["sched"] = "sleep"
    /\ pc' = [pc EXCEPT !["sched"] = IF scheduler.running THEN "idle" ELSE "exited"]
    /\ UNCHANGED <<tasks, provider, storage, now, cur, loc, ret, queue, scheduler,
                   issued, session>>

\* check_video_tasks, lines 55-71: the next task of pending_tasks; a service
\* name without a registered video service is skipped.
check_next_task ==
    /\ pc["sched"] = "idle"
    /\ queue # <<>>
    /\ LET t == Head(queue) IN
       IF tasks[t].service_name \notin VideoServiceRegistry
       THEN Finish("sched", t, Raise("NO_SERVICE"), NoLoc)
       ELSE VideoStart("sched", t)
    /\ UNCHANGED <<tasks, provider, storage, now>>

\* TaskScheduler.stop, called by shutdown_event (api/app.py): the flag is
\* cleared and the call returns; it does not wait for the scheduler thread.
stop ==
    /\ ~scheduler.stopped
    /\ scheduler' = [scheduler EXCEPT !.running = FALSE, !.stopped = TRUE]
    /\ UNCHANGED <<tasks, provider, storage, now, pc, cur, loc, ret, queue, issued, session>>

\* TaskScheduler.run, line 89, the first statement the scheduler thread
\* executes: the flag is set, whatever its value; the loop condition of line
\* 91 is read next.
sched_run ==
    /\ pc["sched"] = "start"
    /\ pc' = [pc EXCEPT !["sched"] = "sleep"]
    /\ scheduler' = [scheduler EXCEPT !.running = TRUE]
    /\ UNCHANGED <<tasks, provider, storage, now, cur, loc, ret, queue, issued, session>>

\* ------------------------------------------- direct calls of the services
\* VolcengineVideoService.get_video_task_result called with a task id by an
\* in-process caller (no router in front of it): the id of a video task or
\* an id that is not in the table.
get_video_task_result(p, t) ==
    /\ pc[p] = "idle"
    /\ tasks[t].exists => tasks[t].service_type = "video"
    /\ VideoStart(p, t)
    /\ UNCHANGED <<tasks, provider, storage, now>>

\* CozeImageService.get_image_task_result called the same way.
get_image_task_result(p, t) ==
    /\ pc[p] = "idle"
    /\ tasks[t].exists => tasks[t].service_type = "image"
    /\ ImageStart(p, t)
    /\ UNCHANGED <<tasks, provider, storage, now>>

\* number of rows in the tasks table
NumTasks == Cardinality({t \in TaskIds : tasks[t].exists})

\* One client request in flight and the scheduler thread.
MainProcs == {"client", "sched"}

Next ==
    \/ (NumTasks < MaxClientTasks /\ create_image_to_video_task)
    \/ (NumTasks < MaxClientTasks /\ create_image_task)
    \/ ProviderStep
    \/ \E t \in TaskIds : video_router_result("client", t)
    \/ \E t \in TaskIds : image_router_result("client", t)
    \/ \E p \in MainProcs : VideoPoll(p)
    \/ \E p \in MainProcs : VideoPollRaise(p)
    \/ \E p \in MainProcs : VideoMaterialize(p)
    \/ \E p \in MainProcs : VideoMaterializeRaise(p)
    \/ \E p \in MainProcs : VideoWrite(p)
    \/ \E p \in MainProcs : VideoWriteRaise(p)
    \/ \E p \in MainProcs : ImagePoll(p)
    \/ \E p \in MainProcs : ImagePollRaise(p)
    \/ \E p \in MainProcs : ImageWrite(p)
    \/ \E p \in MainProcs : ImageWriteRaise(p)
    \/ \E p \in MainProcs : Respond(p)
    \/ check_video_tasks
    \/ check_video_tasks_raise
    \/ check_next_task
    \/ sched_sleep

Spec == Init /\ [][Next]_vars

\* ------------------------------------------------ other specifications
\* Two HTTP requests in flight at once (two client coroutines), no scheduler.
NextClients ==
    \/ (NumTasks < MaxClientTasks /\ create_image_to_video_task)
    \/ (NumTasks < MaxClientTasks /\ create_image_task)
    \/ ProviderStep
    \/ \E p \in Clients, t \in TaskIds : video_router_result(p, t)
    \/ \E p \in Clients, t \in TaskIds : image_router_result(p, t)
    \/ \E p \in Clients : VideoPoll(p)
    \/ \E p \in Clients : VideoPollRaise(p)
    \/ \E p \in Clients : VideoMaterialize(p)
    \/ \E p \in Clients : VideoMaterializeRaise(p)
    \/ \E p \in Clients : VideoWrite(p)
    \/ \E p \in Clients : VideoWriteRaise(p)
    \/ \E p \in Clients : ImagePoll(p)
    \/ \E p \in Clients : ImagePollRaise(p)
    \/ \E p \in Clients : ImageWrite(p)
    \/ \E p \in Clients : ImageWriteRaise(p)
    \/ \E p \in Clients : Respond(p)

ClientsSpec == Init /\ [][NextClients]_vars

\* The scheduler alone, no client query at all. The sweep keeps ticking
\* (TaskScheduler.run loops while running), and the calls it makes are not
\* refused forever: a listing, a provider call and an upload that are
\* attempted again and again eventually succeed; the database accepts every
\* update.
NextSched ==
    \/ create_image_to_video_task
    \/ create_image_task
    \/ ProviderStep
    \/ VideoPoll("sched")
    \/ VideoPollRaise("sched")
    \/ VideoMaterialize("sched")
    \/ VideoMaterializeRaise("sched")
    \/ VideoWrite("sched")
    \/ Respond("sched")
    \/ check_video_tasks
    \/ check_video_tasks_raise
    \/ check_next_task
    \/ sched_sleep

SchedFairness ==
    /\ SF_vars(check_video_tasks)
    /\ WF_vars(check_next_task)
    /\ SF_vars(VideoPoll("sched"))
    /\ SF_vars(VideoMaterialize("sched"))
    /\ WF_vars(VideoWrite("sched"))
    /\ WF_vars(Respond("sched"))
    /\ WF_vars(sched_sleep)

FairSchedSpec == Init /\ [][NextSched]_vars /\ SchedFairness

\* The same steps of the scheduler thread without any fairness assumption.
SchedSpec == Init /\ [][NextSched]_vars

\* The scheduler thread and the application's shutdown handler.
NextShutdown ==
    \/ NextSched
    \/ stop

ShutdownSpec == Init /\ [][NextShutdown]_vars

\* One in-process caller that calls the two services directly, one call
\* after the other, with any task id.
NextService ==
    \/ (NumTasks < MaxClientTasks /\ create_image_to_video_task)
    \/ (NumTasks < MaxClientTasks /\ create_image_task)
    \/ ProviderStep
    \/ \E t \in TaskIds : get_video_task_result("client", t)
    \/ \E t \in TaskIds : get_image_task_result("client", t)
    \/ VideoPoll("client")
    \/ VideoPollRaise("client")
    \/ VideoMaterialize("client")
    \/ VideoMaterializeRaise("client")
    \/ VideoWrite("client")
    \/ VideoWriteRaise("client")
    \/ ImagePoll("client")
    \/ ImagePollRaise("client")
    \/ ImageWrite("client")
    \/ ImageWriteRaise("client")
    \/ Respond("client")

ServiceSpec == Init /\ [][NextService]_vars

\* ----------------------------------------------------------------- claims
\* The same caller with a provider that may also report an unlisted status.
NextMapping ==
    \/ NextService
    \/ ProviderStepUnlisted

MappingSpec == Init /\ [][NextMapping]_vars

\* The same caller with a database that may refuse the insert of a creation.
NextCreate ==
    \/ NextService
    \/ create_image_task_unrecorded

CreateSpec == Init /\ [][NextCreate]_vars

\* TaskScheduler.start has returned: the thread exists and has not yet
\* executed the first statement of run(); running still has the value that
\* __init__ gave it.
InitStart ==
    /\ tasks = [t \in TaskIds |-> NoRow]
    /\ provider = [t \in TaskIds |-> NoJob]
    /\ storage = {}
    /\ now = 1
    /\ pc = [p \in Procs |-> IF p = "sched" THEN "start" ELSE "idle"]
    /\ cur = [p \in Procs |-> NoTask]
    /\ loc = [p \in Procs |-> NoLoc]
    /\ ret = [p \in Procs |-> NoRet]
    /\ queue = <<>>
    /\ scheduler = [running |-> FALSE, stopped |-> FALSE, errors |-> {}]
    /\ issued = {}
    /\ session = [snap |-> [s \in Sessions |-> NoSnap], last |-> NoCall]

\* one step of the scheduler thread
SchedThreadStep ==
    \/ sched_run
    \/ sched_sleep
    \/ check_video_tasks
    \/ check_video_tasks_raise
    \/ check_next_task
    \/ VideoPoll("sched")
    \/ VideoPollRaise("sched")
    \/ VideoMaterialize("sched")
    \/ VideoMaterializeRaise("sched")
    \/ VideoWrite("sched")
    \/ Respond("sched")

NextStartStop ==
    \/ NextShutdown
    \/ sched_run

\* The scheduler thread from its start, and the shutdown handler; the thread
\* is scheduled again and again while it has a step to take.
StartStopSpec == InitStart /\ [][NextStartStop]_vars /\ WF_vars(SchedThreadStep)

\* ------------------------------------------- the TaskService on sessions
\* What session s reads. SessionLocal has autocommit=False and the engine
\* sets no isolation level: the first read of a session opens a transaction
\* that get_task and list_tasks never end, and the rows the session has
\* loaded stay in its identity map. NoSnap: no transaction is open and the
\* next read sees the table.
View(s) == IF session.snap[s] = NoSnap THEN tasks ELSE session.snap[s]

\* What a read after expire_all() can see: under the isolation level MySQL
\* uses unless configured otherwise (REPEATABLE READ) the SELECT is answered
\* from the snapshot of the open transaction; under READ COMMITTED, and on
\* SQLite, it is answered from the committed table.
RefreshedViews(s) == {View(s), tasks}

\* TaskDAO.list_tasks on the table a session sees
query_tasks(table, service_type, statuses, skip, limit) ==
    Page(NewestFirst({t \in TaskIds : /\ table[t].exists
                                      /\ table[t].service_type = service_type
                                      /\ table[t].status \in statuses}),
         skip, limit)

\* TaskService.get_task, lines 71-91: expire_all() when refresh, the query by
\* task_id, db.refresh(task) when refresh; nothing is committed.
get_task(s, t, refresh) ==
    /\ \E view \in (IF refresh THEN RefreshedViews(s) ELSE {View(s)}) :
        session' = [snap |-> [session.snap EXCEPT ![s] = view],
                    last |-> [NoCall EXCEPT !.session = s, !.op = "get_task",
                                            !.task = t, !.refresh = refresh,
                                            !.kind = IF view[t].exists THEN "row" ELSE "none",
                                            !.row = view[t]]]
    /\ UNCHANGED <<tasks, provider, storage, now, pc, cur, loc, ret, queue, scheduler,
                   issued>>

\* lines 103-108 without the branch of lines 105-106: the given dict is
\* assigned whatever the row holds
task_specific_data_replaced(loaded, current, task_specific_data) ==
    IF task_specific_data = NoData THEN current.task_specific_data
    ELSE task_specific_data

\* TaskDAO.update_task_status, lines 103-108, with the row as the session has
\* it loaded and the row as the table has it: None leaves the column alone;
\* a loaded non-empty dict is updated in place, which the plain JSON column
\* does not track, so the UPDATE does not contain the column; an empty or
\* NULL loaded value is replaced by assignment.
task_specific_data_merged(loaded, current, task_specific_data) ==
    IF task_specific_data = NoData THEN current.task_specific_data
    ELSE IF loaded.task_specific_data # NoData THEN current.task_specific_data
    ELSE task_specific_data

\* the arguments of the update calls: a status alone with additional
\* task_specific_data, or a terminal status with a result
UpdateInputs ==
    {[status |-> "running", result |-> NoResult, task_specific_data |-> [extra |-> 1]],
     [status |-> "completed", result |-> <<"output", 1>>, task_specific_data |-> NoData]}

\* TaskService.update_task, lines 93-127, when the DAO call is the existing
\* TaskDAO.update_task_status: the row is looked up as the session sees it,
\* the columns are assigned, the transaction is committed and the row is
\* read again in a new transaction. An id the session does not see returns
\* None.
update_task(s, t, args) ==
    /\ LET loaded == View(s)[t] IN
       IF ~loaded.exists \/ ~tasks[t].exists
       THEN /\ session' = [snap |-> [session.snap EXCEPT ![s] = NoSnap],
                           last |-> [NoCall EXCEPT !.session = s, !.op = "update_task",
                                                   !.task = t]]
            /\ UNCHANGED <<tasks, now>>
       ELSE /\ tasks' = [tasks EXCEPT ![t] =
                    [update_task_status(tasks[t], args.status, args.result, None, now)
                        EXCEPT !.task_specific_data =
                            task_specific_data_merged(loaded, tasks[t],
                                                      args.task_specific_data)]]
            /\ now' = Stamp(args.status)
            /\ session' = [snap |-> [session.snap EXCEPT ![s] = tasks'],
                           last |-> [NoCall EXCEPT !.session = s, !.op = "update_task",
                                                   !.task = t, !.kind = "row",
                                                   !.status = {args.status},
                                                   !.task_specific_data =
                                                        args.task_specific_data,
                                                   !.row = tasks'[t]]]
    /\ UNCHANGED <<provider, storage, pc, cur, loc, ret, queue, scheduler, issued>>

\* TaskService.update_task as line 116 is written: TaskDAO has no update_task,
\* the call raises, transaction() rolls back and re-raises.
update_task_raise(s, t) ==
    /\ session' = [snap |-> [session.snap EXCEPT ![s] = NoSnap],
                   last |-> [NoCall EXCEPT !.session = s, !.op = "update_task",
                                           !.task = t, !.kind = "raise"]]
    /\ UNCHANGED <<tasks, provider, storage, now, pc, cur, loc, ret, queue, scheduler,
                   issued>>

\* the status filters of the listing calls: one status string, or a list
StatusFilters ==
    {[status |-> {"pending"}, as_list |-> FALSE],
     [status |-> {"pending", "running"}, as_list |-> TRUE]}

\* TaskService.list_tasks with refresh=True, lines 129-162, and
\* TaskDAO.list_tasks: expire_all(), then the query. A single status is
\* compared with `Task.status == status`; a list given to the same comparison
\* selects the rows whose status is a member, as the service documents.
TaskService_list_tasks(s, service_type, f) ==
    /\ \E view \in RefreshedViews(s) :
        session' = [snap |-> [session.snap EXCEPT ![s] = view],
                    last |-> [NoCall EXCEPT !.session = s, !.op = "list_tasks",
                                            !.refresh = TRUE,
                                            !.service_type = service_type,
                                            !.status = f.status, !.as_list = f.as_list,
                                            !.kind = "rows",
                                            !.rows = query_tasks(view, service_type, f.status,
                                                                 0, SweepLimit)]]
    /\ UNCHANGED <<tasks, provider, storage, now, pc, cur, loc, ret, queue, scheduler,
                   issued>>

\* the same call with a list when the comparison of the Enum column with a
\* list fails in the statement: the exception reaches the caller; the
\* session's transaction stays as it was.
TaskService_list_tasks_raise(s, service_type, f) ==
    /\ f.as_list
    /\ session' = [session EXCEPT !.last =
                    [NoCall EXCEPT !.session = s, !.op = "list_tasks", !.refresh = TRUE,
                                   !.service_type = service_type,
                                   !.status = f.status, !.as_list = TRUE,
                                   !.kind = "raise"]]
    /\ UNCHANGED <<tasks, provider, storage, now, pc, cur, loc, ret, queue, scheduler,
                   issued>>

\* Two TaskService instances, each on its own session (the application's and
\* the scheduler's), called in any order on the tasks the services created;
\* get_task is called with refresh=True, its default, as every caller does.
NextStore ==
    \/ (NumTasks < MaxClientTasks /\ create_image_to_video_task)
    \/ (NumTasks < MaxClientTasks /\ create_image_task)
    \/ \E s \in Sessions, t \in TaskIds : get_task(s, t, TRUE)
    \/ \E s \in Sessions, t \in TaskIds, args \in UpdateInputs : update_task(s, t, args)
    \/ \E s \in Sessions, t \in TaskIds : update_task_raise(s, t)
    \/ \E s \in Sessions, f \in StatusFilters : TaskService_list_tasks(s, "video", f)
    \/ \E s \in Sessions, f \in StatusFilters : TaskService_list_tasks_raise(s, "video", f)

StoreSpec == Init /\ [][NextStore]_vars

WriteLabels == {"video_write", "image_write"}
PollLabels == {"video_poll", "image_poll"}

\* caller p's update_task_status call is applied in this step
Wrote(p) == pc[p] \in WriteLabels /\ loc'[p].updated

FinishedJobLeadsToTerminal ==
    \A t \in TaskIds :
        (tasks[t].exists /\ provider[t].status \in JobDone)
            ~> (tasks[t].status \in Terminal)

\* C5: an invocation that read a terminal row makes no provider call and
\* returns the persisted row.
TerminalRowReturnedWithoutPoll ==
    \A p \in Procs :
        loc[p].db_status \in Terminal
        => /\ pc[p] = "done"
           /\ ret[p].kind = "return"
           /\ ret[p].status = loc[p].db_status
           /\ ret[p].result = loc[p].db_result

Polled(p) == loc[p].status # None /\ loc[p].reason # "SERVICE_UNAVAILABLE"

\* caller p's invocation has ended and its update call raised
UpdateFailed(p) ==
    /\ pc[p] = "done"
    /\ loc[p].status # None
    /\ ~loc[p].updated
    /\ ~(loc[p].status = "completed" /\ loc[p].result = NoResult)

\* the provider call of caller p's invocation raised
PollRaised(p) ==
    /\ pc[p] = "done"
    /\ \/ ret[p].code = "VIDEO_TASK_RESULT_ERROR" /\ loc[p].status = None
       \/ loc[p].reason = "SERVICE_UNAVAILABLE"

\* C11: scenario A. After invocations on a video task whose polls were
\* answered queued and running (the row reads running), the invocation whose
\* poll is answered succeeded and whose asset was stored leaves the row
\* completed with a non-null result.
ThreePollsLeaveTaskCompleted ==
    \A p \in Procs :
        (/\ pc[p] = "done"
         /\ tasks[cur[p]].service_type = "video"
         /\ loc[p].db_status = "running"
         /\ loc[p].status = "completed"
         /\ loc[p].result # NoResult)
        => /\ tasks[cur[p]].status = "completed"
           /\ tasks[cur[p]].result # NoResult

\* C12: an invocation on a non-terminal task whose poll reports the job
\* failed performs its one status write; the row then has status failed, no
\* result and the provider's failure reason as error_message, and the
\* invocation reports failed with that reason.
ProviderFailureIsPersisted ==
    \A p \in Procs :
        (/\ pc[p] = "done"
         /\ loc[p].db_status \in NonTerminal
         /\ loc[p].status = "failed")
        => /\ loc[p].updated
           /\ tasks[cur[p]].status = "failed"
           /\ tasks[cur[p]].result = NoResult
           /\ loc[p].error_message # None
           /\ tasks[cur[p]].error_message = loc[p].error_message
           /\ \/ ret[p] = Return("failed", NoResult, loc[p].error_message)
              \/ ret[p] = Raise("TASK_FAILED")

\* C13: when the provider reports succeeded and fetching or storing the
\* asset fails, the row is persisted with status error and an error_message.
FailedFinalizationIsPersistedAsError ==
    \A p \in Procs :
        (/\ pc[p] = "done"
         /\ loc[p].status = "completed"
         /\ loc[p].result = NoResult)
        => /\ tasks[cur[p]].status = "error"
           /\ tasks[cur[p]].error_message # None

UnknownTaskIdRaisesResourceNotFound ==
    \A p \in Procs :
        (pc[p] = "done" /\ ~tasks[cur[p]].exists)
        => ret[p] = Raise("RESOURCE_NOT_FOUND")

\* C16: an invocation on a pending or running task whose poll was answered
\* (and whose update call did not fail) returns a response with a task
\* status; it does not raise.
PendingTaskQueryNeverRaises ==
    \A p \in Procs :
        (/\ pc[p] = "done"
         /\ loc[p].db_status \in NonTerminal
         /\ Polled(p)
         /\ ~UpdateFailed(p))
        => /\ ret[p].kind = "return"
           /\ ret[p].status \in NonTerminal \cup Terminal

\* a sweep tick is in progress: tasks of the listing are still to be
\* checked, or the check of one of them is running
TickInFlight == queue # <<>> \/ pc["sched"] \notin {"idle", "sleep", "exited"}

\* C17: the listing of every sweep tick contains every task whose persisted
\* status is pending or running, whatever its service type.
SweepListsEveryNonTerminalTask ==
    [][(/\ pc["sched"] = "idle"
        /\ queue = <<>>
        /\ (queue' # <<>> \/ pc'["sched"] = "sleep"))
       => \A t \in TaskIds :
            (tasks[t].exists /\ tasks[t].status \in NonTerminal)
            => \E i \in 1..Len(queue') : queue'[i] = t]_vars

\* C18: a check that raised does not end the tick: the sweep drops a task
\* from its list only after that task's check has ended, goes on with the
\* next listed task, and ends the tick only when the list is empty.
SweepContinuesAfterTaskError ==
    [][/\ (pc["sched"] = "done" /\ pc'["sched"] # "done")
          => /\ queue' = Tail(queue)
             /\ pc'["sched"] = IF queue' = <<>> THEN "sleep" ELSE "idle"
       /\ (pc["sched"] = "idle" /\ queue # <<>> /\ pc'["sched"] # "idle")
          => /\ cur'["sched"] = Head(queue)
             /\ queue' = queue
       /\ (queue # <<>> /\ queue' # queue)
          => /\ pc["sched"] = "done"
             /\ cur["sched"] = Head(queue)]_vars

\* witness of C18: in a tick where the check of one task raised, the check
\* of a task listed after it has run and written its status
SweepWentOnAfterError ==
    /\ scheduler.errors # {}
    /\ pc["sched"] = "done"
    /\ cur["sched"] \notin scheduler.errors
    /\ loc["sched"].updated

\* C19: once stop() has returned, no sweep tick is in flight.
ShutdownWaitsForTickInFlight ==
    scheduler.stopped => ~TickInFlight

\* C20: every materialization of a task uses the same storage key: results
\* built for the same task are equal, and storage holds at most one object
\* per task.
StorageKeyIsFunctionOfTask ==
    /\ \A p, q \in Procs :
          (/\ cur[p] # NoTask
           /\ cur[p] = cur[q]
           /\ loc[p].result # NoResult
           /\ loc[q].result # NoResult)
          => loc[p].result = loc[q].result
    /\ \A p \in Procs :
          (/\ cur[p] # NoTask
           /\ loc[p].result # NoResult
           /\ tasks[cur[p]].result # NoResult)
          => loc[p].result = tasks[cur[p]].result
    /\ Cardinality(storage) <= NumTasks

QueuedOrRunningPersistsRunning ==
    \A p \in Procs :
        (/\ pc[p] = "done"
         /\ loc[p].updated
         /\ loc[p].db_status \in NonTerminal
         /\ loc[p].status \in NonTerminal)
        => tasks[cur[p]].status = "running"

\* no reconciler invocation is in flight
Quiescent == \A p \in Procs : pc[p] \in {"idle", "sleep", "exited"}

\* C30: when no invocation is in flight, every object in durable storage is
\* the one referenced by the persisted result of a task.
NoOrphanedStorageObject ==
    Quiescent =>
        \A k \in storage : \E t \in TaskIds : tasks[t].result = <<"oss", k>>


\* the five status values of the task record
CanonicalStatus == NonTerminal \cup Terminal

\* C22: whatever status value the provider returns, the status an invocation
\* returns to its caller and the status persisted in the row are each one of
\* pending, running, completed, failed, error.
ReportedStatusIsCanonical ==
    /\ \A t \in TaskIds : tasks[t].exists => tasks[t].status \in CanonicalStatus
    /\ \A p \in Procs :
           (pc[p] = "done" /\ ret[p].kind = "return")
           => ret[p].status \in CanonicalStatus


\* the task_specific_data key under which a row keeps its provider job id
JobIdKey(row) ==
    IF row.service_type = "video" THEN "volcengine_task_id" ELSE "execute_id"

\* C27: every task_id a create operation has returned is the id of a row of
\* the table whose task_specific_data holds the provider's job id.
IssuedIdIsPersistedRecord ==
    \A i \in issued :
        /\ i \in TaskIds
        /\ tasks[i].exists
        /\ JobIdKey(tasks[i]) \in DOMAIN tasks[i].task_specific_data


\* C29: once stop() has returned, the scheduler thread eventually leaves the
\* loop of run(), also when stop() ran before the first statement of run().
StopLeadsToThreadExit ==
    scheduler.stopped ~> (pc["sched"] = "exited")


\* C23: get_task(task_id, refresh=True) on a session returns the status and
\* result the table holds for the task, whatever that session read before.
RefreshedGetReturnsCommittedRow ==
    [][(/\ session' # session
        /\ session'.last.op = "get_task"
        /\ session'.last.refresh
        /\ session'.last.kind = "row")
       => /\ session'.last.row.status = tasks[session'.last.task].status
          /\ session'.last.row.result = tasks[session'.last.task].result]_vars

\* C24: list_tasks(service_type, status, refresh=True), with one status or a
\* list of statuses, returns the tasks of that type whose status in the table
\* matches, newest first.
RefreshedListReturnsMatchingRows ==
    [][(/\ session' # session
        /\ session'.last.op = "list_tasks")
       => /\ session'.last.kind = "rows"
          /\ session'.last.rows =
                list_tasks(session'.last.service_type, session'.last.status,
                           0, SweepLimit)]_vars


\* the task_id values of the rows are pairwise distinct
TaskIdsDistinct ==
    \A t, u \in TaskIds :
        (tasks[t].exists /\ tasks[u].exists /\ t # u)
        => tasks[t].task_id # tasks[u].task_id

CorrelationKeysOnlyGrow ==
    [][\A t \in TaskIds :
        tasks[t].exists
        => /\ tasks'[t].exists
           /\ \A k \in DOMAIN tasks[t].task_specific_data :
                /\ k \in DOMAIN tasks'[t].task_specific_data
                /\ tasks'[t].task_specific_data[k] = tasks[t].task_specific_data[k]]_vars

\* an update that passed additional task_specific_data has been committed
\* by a session, and the row holds its job id
UpdatedWithAdditionalData ==
    /\ session.last.op = "update_task"
    /\ session.last.kind = "row"
    /\ session.last.task_specific_data # NoData
    /\ JobIdKey(tasks[session.last.task]) \in DOMAIN tasks[session.last.task].task_specific_data
    /\ tasks[session.last.task].task_specific_data[JobIdKey(tasks[session.last.task])]
            = session.last.task

====
